---- MODULE Spec2Model ----
(***************************************************************************)
(* Model of test-python.py: the Calculator class (constructor, add, the    *)
(* static multiply), the function main statement by statement, and the     *)
(* module-level guard that runs main when the file is executed as a        *)
(* script.  When the file is imported instead, a client may construct      *)
(* Calculators, call add and multiply with arbitrary arguments and call    *)
(* main, which returns the Calculator it built.                            *)
(***************************************************************************)
EXTENDS Integers, Sequences, FiniteSets, TLC

\* ---------------------------------------------------------------- bounds
\* Client arguments of add and multiply range over -MaxArg .. MaxArg.
MaxArg == 3
\* A client calls main at most this many times.
MaxMainCalls == 2

Args == (0 - MaxArg) .. MaxArg
\* Names a client passes to the constructor (the empty name included).
Names == {"", "A", "MyCalc"}

VARIABLES
    dunder_name, \* __name__ of the module: "__main__" when run as a script
    pc,          \* "L<n>": main is about to execute line n; "L63" the module
                 \* guard; "idle": imported, client in control; "exit";
                 \* "raised": an exception propagated
    caller,      \* who called main: "script" (line 64) or "client"
    frame,       \* local variables of the running main: name -> value
    stdout,      \* lines printed so far
    mark,        \* Len(stdout) when the running main was entered
    err,         \* "none" or the name of the exception raised
    env,         \* the client's namespace: "calc" -> its Calculator
    ctorArg,     \* the constructor argument of the client's Calculator
    last,        \* the client's last call: [op, args, ret]
    mains        \* number of calls of main made by the client

vars == <<dunder_name, pc, caller, frame, stdout, mark, err, env, ctorArg,
          last, mains>>

\* ------------------------------------------------------- Python semantics
\* An empty namespace / instance dictionary.
EmptyDict == <<>>

\* o.k = val, or the binding of a local variable k.
SetAttr(o, k, val) ==
    [n \in DOMAIN o \cup {k} |-> IF n = k THEN val ELSE o[n]]

\* Value of the digit character c in an integer literal.
DigitVal(c) ==
    CASE c = "0" -> 0 [] c = "1" -> 1 [] c = "2" -> 2 [] c = "3" -> 3
      [] c = "4" -> 4 [] c = "5" -> 5 [] c = "6" -> 6 [] c = "7" -> 7
      [] c = "8" -> 8 [] c = "9" -> 9 [] c = "A" -> 10 [] c = "B" -> 11
      [] c = "C" -> 12 [] c = "D" -> 13 [] c = "E" -> 14 [] c = "F" -> 15

\* The 0o prefix ignored: the digits read as decimal.
LiteralBase_OctalAsDecimal(prefix) ==
    CASE prefix = "0x" -> 16 [] prefix = "0b" -> 2 [] prefix = "0o" -> 10
      [] prefix = "" -> 10

\* Base selected by the prefix of an integer literal.
LiteralBase(prefix) ==
    CASE prefix = "0x" -> 16 [] prefix = "0b" -> 2 [] prefix = "0o" -> 8
      [] prefix = "" -> 10

RECURSIVE DigitsValue(_, _)
\* Value of a digit string in the given base, most significant digit first.
DigitsValue(digits, base) ==
    IF digits = <<>> THEN 0
    ELSE DigitsValue(SubSeq(digits, 1, Len(digits) - 1), base) * base
         + DigitVal(digits[Len(digits)])

\* Value of the integer literal prefix ++ digits.
IntLiteral(prefix, digits) == DigitsValue(digits, LiteralBase(prefix))

DigitChar(d) ==
    CASE d = 0 -> "0" [] d = 1 -> "1" [] d = 2 -> "2" [] d = 3 -> "3"
      [] d = 4 -> "4" [] d = 5 -> "5" [] d = 6 -> "6" [] d = 7 -> "7"
      [] d = 8 -> "8" [] d = 9 -> "9"

RECURSIVE IntToStr(_)
\* str(n) for an int n, as an f-string replacement field formats it.
IntToStr(n) ==
    IF n < 0 THEN "-" \o IntToStr(0 - n)
    ELSE IF n < 10 THEN DigitChar(n)
    ELSE IntToStr(n \div 10) \o DigitChar(n % 10)

\* x * n written for x ** n.
Pow_Times(x, n) == x * n

RECURSIVE Pow(_, _)
\* x ** n for ints, n >= 0.
Pow(x, n) == IF n = 0 THEN 1 ELSE x * Pow(x, n - 1)

\* len written for sum.
sum_Len(xs) == Len(xs)

RECURSIVE sum(_)
\* The built-in sum over a list of ints.
sum(xs) == IF xs = <<>> THEN 0 ELSE sum(SubSeq(xs, 1, Len(xs) - 1)) + xs[Len(xs)]

\* int + complex: the int is widened to a complex with imaginary part 0.
IntPlusComplex(i, c) == [re |-> i + c.re, im |-> 0 + c.im]

\* -------------------------------------------------------- class Calculator
\* __init__ starting value at 1.
Calculator_init_ValueOne(self, name) ==
    SetAttr(SetAttr(self, "name", name), "value", 1)

\* Calculator.__init__(self, name): the instance after the two assignments.
Calculator_init(self, name) == SetAttr(SetAttr(self, "name", name), "value", 0)

\* Calculator(name): a fresh instance, initialised.
Calculator(name) == Calculator_init(EmptyDict, name)

\* add with the operator mistyped: x - y.
add_Subtracts(self, x, y) == [ret |-> x - y, self |-> self]

\* add accumulating its result into self.value.
add_Accumulates(self, x, y) ==
    [ret |-> x + y, self |-> SetAttr(self, "value", self["value"] + x + y)]

\* add(self, x, y): the value returned and the instance afterwards.
add(self, x, y) == [ret |-> x + y, self |-> self]

\* multiply with the operator mistyped: a + b.
multiply_Adds(a, b) == LET result == a + b IN result

\* The static multiply(a, b): no instance is passed.
multiply(a, b) == LET result == a * b IN result

\* ------------------------------------------------------------ constants
\* Literals of main.
MainCalcName == "MyCalc"
Divisor == 3

NoCall == [op |-> "none", args |-> <<>>, ret |-> 0]

Init ==
    /\ dunder_name \in {"__main__", "test_python"}
    /\ pc = "L63"
    /\ caller = "script"
    /\ frame = EmptyDict
    /\ stdout = <<>>
    /\ mark = 0
    /\ err = "none"
    /\ env = EmptyDict
    /\ ctorArg = ""
    /\ last = NoCall
    /\ mains = 0

\* Entering main: a fresh frame.
EnterMain(who) ==
    /\ pc' = "L32"
    /\ caller' = who
    /\ frame' = EmptyDict
    /\ mark' = Len(stdout)

\* Lines 63-64: run main only when executed as a script.
ModuleGuard ==
    /\ pc = "L63"
    /\ IF dunder_name = "__main__"
       THEN /\ EnterMain("script")
       ELSE /\ pc' = "idle"
            /\ UNCHANGED <<caller, frame, mark>>
    /\ UNCHANGED <<dunder_name, stdout, err, env, ctorArg, last, mains>>

\* An exception propagates out of main: nothing else changes.
Raise(e) ==
    /\ pc' = "raised"
    /\ err' = e
    /\ UNCHANGED <<frame, stdout>>

\* Exception raised by reading local variables that are not bound yet.
ReadExc(reads) ==
    IF reads \subseteq DOMAIN frame THEN "none" ELSE "UnboundLocalError"

\* Exception raised by a // b.
FloorDivExc(b) == IF b = 0 THEN "ZeroDivisionError" ELSE "none"

\* a // b, b # 0.
FloorDiv(a, b) == a \div b

\* The assignment `var = val`, which reads the locals `reads` and whose
\* evaluation raises `exc` (or "none"); control goes on to `next`.
Assign(next, reads, exc, var, val) ==
    /\ IF ReadExc(reads) # "none" THEN Raise(ReadExc(reads))
       ELSE IF exc # "none" THEN Raise(exc)
       ELSE /\ pc' = next
            /\ frame' = SetAttr(frame, var, val)
            /\ UNCHANGED <<stdout, err>>
    /\ UNCHANGED <<dunder_name, caller, mark, env, ctorArg, last, mains>>

\* print(text); control goes on to `next`.
PrintLine(next, reads, text) ==
    /\ IF ReadExc(reads) # "none" THEN Raise(ReadExc(reads))
       ELSE /\ pc' = next
            /\ stdout' = Append(stdout, text)
            /\ UNCHANGED <<frame, err>>
    /\ UNCHANGED <<dunder_name, caller, mark, env, ctorArg, last, mains>>

\* A float literal: integer digits, fraction digits, as an exact ratio.
FloatLiteral(int, frac) ==
    [num |-> DigitsValue(int \o frac, 10), den |-> Pow(10, Len(frac))]

\* ------------------------------------------------------------------ main
main_L32 ==
    /\ pc = "L32"
    /\ Assign("L35", {}, "none", "calc", Calculator(MainCalcName))

main_L35 ==
    /\ pc = "L35"
    /\ Assign("L36", {}, "none", "message", "Hello, World!")

\* formatted = f"The result is: {calc.add(5, 3)}"; calc is the object add left.
main_L36 ==
    /\ pc = "L36"
    /\ IF ReadExc({"calc"}) # "none" THEN Raise(ReadExc({"calc"}))
       ELSE LET r == add(frame["calc"], 5, 3) IN
            /\ pc' = "L37"
            /\ frame' = SetAttr(SetAttr(frame, "calc", r.self), "formatted",
                                "The result is: " \o IntToStr(r.ret))
            /\ UNCHANGED <<stdout, err>>
    /\ UNCHANGED <<dunder_name, caller, mark, env, ctorArg, last, mains>>

main_L37 ==
    /\ pc = "L37"
    /\ Assign("L38", {}, "none", "raw_string", "C:\\Users\\path")

main_L38 ==
    /\ pc = "L38"
    /\ Assign("L41", {}, "none", "byte_string",
                 [bytes |-> <<98, 121, 116, 101, 115>>])

main_L41 ==
    /\ pc = "L41"
    /\ Assign("L42", {}, "none", "decimal", IntLiteral("", <<"4", "2">>))

main_L42 ==
    /\ pc = "L42"
    /\ Assign("L43", {}, "none", "floating",
                 FloatLiteral(<<"3">>, <<"1", "4">>))

main_L43 ==
    /\ pc = "L43"
    /\ Assign("L44", {}, "none", "hex_num", IntLiteral("0x", <<"F", "F">>))

main_L44 ==
    /\ pc = "L44"
    /\ Assign("L45", {}, "none", "binary",
                 IntLiteral("0b", <<"1", "0", "1", "0">>))

main_L45 ==
    /\ pc = "L45"
    /\ Assign("L46", {}, "none", "octal",
                 IntLiteral("0o", <<"7", "5", "5">>))

main_L46 ==
    /\ pc = "L46"
    /\ Assign("L49", {}, "none", "complex_num",
                 IntPlusComplex(IntLiteral("", <<"3">>),
                                [re |-> 0, im |-> IntLiteral("", <<"4">>)]))

main_L49 ==
    /\ pc = "L49"
    /\ Assign("L50", {}, "none", "numbers", <<1, 2, 3, 4, 5>>)

main_L50 ==
    /\ pc = "L50"
    /\ Assign("L51", {"numbers"}, "none", "total", sum(frame["numbers"]))

main_L51 ==
    /\ pc = "L51"
    /\ PrintLine("L54", {"total"}, "Total: " \o IntToStr(frame["total"]))

main_L54 ==
    /\ pc = "L54"
    /\ Assign("L55", {}, "none", "x", 10)

main_L55 ==
    /\ pc = "L55"
    /\ Assign("L56", {"x"}, "none", "y", Pow(frame["x"], 2))

\* z = y // 0
main_L56_DivByZero ==
    /\ pc = "L56"
    /\ Assign("L58", {"y"}, FloorDivExc(0), "z", FloorDiv(frame["y"], 0))

main_L56 ==
    /\ pc = "L56"
    /\ Assign("L58", {"y"}, FloorDivExc(Divisor), "z",
                 FloorDiv(frame["y"], Divisor))

\* x > 5 and y < 200: `and` evaluates y < 200 only when x > 5.
Condition(x, y) == IF x > 5 THEN y < 200 ELSE FALSE

\* Line 58: the conditional.
main_L58 ==
    /\ pc = "L58"
    /\ IF ReadExc({"x", "y"}) # "none" THEN Raise(ReadExc({"x", "y"}))
       ELSE /\ pc' = IF Condition(frame["x"], frame["y"]) THEN "L59" ELSE "L61"
            /\ UNCHANGED <<frame, stdout, err>>
    /\ UNCHANGED <<dunder_name, caller, mark, env, ctorArg, last, mains>>

main_L59 ==
    /\ pc = "L59"
    /\ PrintLine("L61", {}, "Condition met")

\* Line 61: return calc; the frame of main is gone.  Line 64 discards the
\* value and the script ends; a client that called main receives the
\* Calculator.
main_L61 ==
    /\ pc = "L61"
    /\ IF ReadExc({"calc"}) # "none"
       THEN /\ Raise(ReadExc({"calc"}))
            /\ UNCHANGED <<env, ctorArg, last>>
       ELSE /\ frame' = EmptyDict
            /\ UNCHANGED <<stdout, err>>
            /\ IF caller = "script"
               THEN /\ pc' = "exit"
                    /\ UNCHANGED <<env, ctorArg, last>>
               ELSE /\ pc' = "idle"
                    /\ env' = SetAttr(env, "calc", frame["calc"])
                    /\ ctorArg' = MainCalcName
                    /\ last' = [op |-> "main", args |-> <<>>,
                                ret |-> frame["calc"]]
    /\ UNCHANGED <<dunder_name, caller, mark, mains>>

\* ---------------------------------------------------------------- client
\* calc = Calculator(name)
Construct(name) ==
    /\ pc = "idle"
    /\ env' = SetAttr(env, "calc", Calculator(name))
    /\ ctorArg' = name
    /\ last' = [op |-> "init", args |-> <<name>>, ret |-> Calculator(name)]
    /\ UNCHANGED <<dunder_name, pc, caller, frame, stdout, mark, err, mains>>

\* calc.add(x, y)
CallAdd(x, y) ==
    /\ pc = "idle"
    /\ "calc" \in DOMAIN env
    /\ LET r == add(env["calc"], x, y) IN
         /\ env' = SetAttr(env, "calc", r.self)
         /\ last' = [op |-> "add", args |-> <<x, y>>, ret |-> r.ret]
    /\ UNCHANGED <<dunder_name, pc, caller, frame, stdout, mark, err, ctorArg,
                   mains>>

\* Calculator.multiply(a, b): needs no instance.
CallMultiply(a, b) ==
    /\ pc = "idle"
    /\ last' = [op |-> "multiply", args |-> <<a, b>>, ret |-> multiply(a, b)]
    /\ UNCHANGED <<dunder_name, pc, caller, frame, stdout, mark, err, env,
                   ctorArg, mains>>

\* main()
CallMain ==
    /\ pc = "idle"
    /\ mains < MaxMainCalls
    /\ mains' = mains + 1
    /\ EnterMain("client")
    /\ UNCHANGED <<dunder_name, stdout, err, env, ctorArg, last>>

MainStep ==
    \/ main_L32 \/ main_L35 \/ main_L36 \/ main_L37 \/ main_L38
    \/ main_L41 \/ main_L42 \/ main_L43 \/ main_L44 \/ main_L45 \/ main_L46
    \/ main_L49 \/ main_L50 \/ main_L51
    \/ main_L54 \/ main_L55 \/ main_L56 \/ main_L58 \/ main_L59 \/ main_L61

Next ==
    \/ ModuleGuard
    \/ MainStep
    \/ \E name \in Names : Construct(name)
    \/ \E x \in Args, y \in Args : CallAdd(x, y)
    \/ \E a \in Args, b \in Args : CallMultiply(a, b)
    \/ CallMain

Spec == Init /\ [][Next]_vars

\* ---------------------------------------------------------------- claims
\* The lines printed by the current (or the last) execution of main.
Output == SubSeq(stdout, mark + 1, Len(stdout))

Bound(ns, v) == v \in DOMAIN ns

\* C1: add(x, y) returns exactly x + y for all integers x, y of the range,
\* negatives and zero included; the call calc.add(5, 3) of main yields 8, so
\* formatted is "The result is: 8".
C1_AddReturnsSum ==
    /\ last.op = "add" => last.ret = last.args[1] + last.args[2]
    /\ Bound(frame, "formatted") => frame["formatted"] = "The result is: 8"

\* A client added a negative number to a positive one, then called main,
\* which has assigned formatted.
C1_Witness ==
    /\ last.op = "add"
    /\ last.args[1] < 0
    /\ last.args[2] > 0
    /\ pc = "L37"
    /\ Bound(frame, "formatted")

\* C2: multiply(a, b) returns exactly a * b, whether or not a Calculator
\* exists and whatever its name and value are.
C2_MultiplyReturnsProduct ==
    last.op = "multiply" => last.ret = last.args[1] * last.args[2]

\* multiply was called with a negative and a positive argument while a
\* Calculator named "A" exists.
C2_Witness ==
    /\ last.op = "multiply"
    /\ last.args[1] < 0
    /\ last.args[2] > 1
    /\ Bound(env, "calc")
    /\ env["calc"]["name"] = "A"

\* C3: executing main never reaches an error state: no statement raises,
\* the floor division by the non-zero constant 3 included.
C3_NoException == err = "none" /\ pc # "raised"

\* The script ran main to its return, past the floor division.
C3_Witness == pc = "exit" /\ Len(stdout) = 2

\* C4: immediately after Calculator(name), for every name, the object has
\* exactly the fields name, equal to the argument, and value, equal to 0.
C4_ConstructedState ==
    /\ last.op = "init" =>
           /\ DOMAIN env["calc"] = {"name", "value"}
           /\ env["calc"]["name"] = last.args[1]
           /\ env["calc"]["value"] = 0
    /\ pc = "L35" =>
           /\ DOMAIN frame["calc"] = {"name", "value"}
           /\ frame["calc"]["name"] = "MyCalc"
           /\ frame["calc"]["value"] = 0

\* A client has just constructed Calculator("A").
C4_Witness == last.op = "init" /\ last.args = <<"A">>

\* C5: when control reaches the conditional x = 10, y = 100 and z = 33, the
\* condition is true, and the branch printing "Condition met" is taken.
C5_ConditionAlwaysMet ==
    /\ pc = "L58" =>
           /\ frame["x"] = 10
           /\ frame["y"] = 100
           /\ frame["z"] = 33
           /\ frame["x"] > 5 /\ frame["y"] < 200
    /\ pc = "L61" =>
           /\ Output # <<>>
           /\ Output[Len(Output)] = "Condition met"

\* Control is past the conditional, at the return.
C5_Witness == pc = "L61" /\ Bound(frame, "z")

\* C6: decimal = 42, hex_num = 255, binary = 10, octal = 493, each the
\* positional expansion of its digits in base 10, 16, 2 and 8.
C6_IntegerLiterals ==
    /\ Bound(frame, "decimal") =>
           frame["decimal"] = 42 /\ frame["decimal"] = 4 * 10 + 2
    /\ Bound(frame, "hex_num") =>
           frame["hex_num"] = 255 /\ frame["hex_num"] = 15 * 16 + 15
    /\ Bound(frame, "binary") =>
           /\ frame["binary"] = 10
           /\ frame["binary"] = 1 * 8 + 0 * 4 + 1 * 2 + 0
    /\ Bound(frame, "octal") =>
           frame["octal"] = 493 /\ frame["octal"] = 7 * 64 + 5 * 8 + 5

\* All four integer literals have been assigned.
C6_Witness ==
    /\ pc = "L46"
    /\ {"decimal", "hex_num", "binary", "octal"} \subseteq DOMAIN frame

\* C7: one execution of main prints exactly "Total: 15" and then
\* "Condition met", each once, never in the other order.
C7_OutputOrder ==
    LET Expected == <<"Total: 15", "Condition met">> IN
    /\ Len(Output) <= Len(Expected)
    /\ Output = SubSeq(Expected, 1, Len(Output))
    /\ pc \in {"L61", "exit"} => Output = Expected
    /\ (pc = "idle" /\ last.op = "main") => Output = Expected
    /\ pc \in {"L32", "L51"} => Output = <<>>

\* A second execution of main has returned to the client.
C7_Witness == pc = "idle" /\ last.op = "main" /\ Len(stdout) = 4

\* C8: after construction no sequence of add and multiply calls changes the
\* object: value is 0 and name is the constructor argument in every state.
C8_CallsLeaveStateUnchanged ==
    /\ Bound(env, "calc") =>
           /\ DOMAIN env["calc"] = {"name", "value"}
           /\ env["calc"]["value"] = 0
           /\ env["calc"]["name"] = ctorArg
    /\ Bound(frame, "calc") =>
           /\ frame["calc"]["value"] = 0
           /\ frame["calc"]["name"] = MainCalcName

\* add has returned a non-zero sum on a Calculator constructed as "A".
C8_Witness ==
    /\ last.op = "add"
    /\ last.ret # 0
    /\ Bound(env, "calc")
    /\ ctorArg = "A"
====
